---- MODULE Spec2Model ----
(***************************************************************************)
(* cursorvec: a Vec<T> paired with a bounded cursor.                       *)
(*                                                                         *)
(* The state is one CursorVec value (its vector and its Cursor), the last  *)
(* call made on it with its argument and its return value, and whether     *)
(* the build checks integer overflow (a debug build panics on `0 - 1`, a   *)
(* release build wraps).  The crate builds in two ways, OpResult being     *)
(* bool by default and Result<(), String> under the `strict` feature: the  *)
(* default build is the state above, and strict_build is the same program  *)
(* built with the feature, given the same calls.                           *)
(* Indices are 0-based as in the source; vector[i + 1] is element i.       *)
(***************************************************************************)
EXTENDS Integers, Sequences, FiniteSets, TLC

VARIABLES
    vector,          \* CursorVec.vector : Vec<T>
    cursor,          \* CursorVec.cursor : Cursor {capacity, rotation, index}
    call,            \* the last call: [name, arg]
    ret,             \* what the last call returned: [tag, val, msg]
    panicked,        \* the last call panicked (the process unwinds; nothing follows)
    overflow_checks, \* build profile: arithmetic overflow panics (debug) or wraps (release)
    strict_build     \* [vector, cursor, ret, panicked] of the build with feature "strict"

vars == <<vector, cursor, call, ret, panicked, overflow_checks, strict_build>>

-----------------------------------------------------------------------------
(* Bounds of the model *)

\* longest vector the model builds
MaxLen == 2
\* largest step count passed to the N-step moves
MaxAmount == 3
\* an index that set_cursor put at `capacity` drifts upward without limit
\* under the forward moves: they are explored up to this index
MaxIndex == 3

\* element values (T is opaque; two values of each parity are not needed)
Elems == {1, 2}

\* width of usize in the model (the narrowest usize Rust targets have);
\* usize::MAX == 2^UsizeBits - 1 is what a wrapped `0 - 1` leaves, and is
\* larger than every length and index the model builds
UsizeBits == 16
UsizeModulus == 2 ^ UsizeBits
UsizeMax == UsizeModulus - 1

RECURSIVE SeqsUpTo(_)
SeqsUpTo(n) == IF n = 0 THEN {<<>>}
               ELSE SeqsUpTo(n - 1) \cup [1..n -> Elems]

Vectors == SeqsUpTo(MaxLen)

-----------------------------------------------------------------------------
(* Return values.  Every value a call returns is a record [tag, val, msg]. *)

Value(tag, val, msg) == [tag |-> tag, val |-> val, msg |-> msg]

Unit == Value("()", 0, "")
Some(v) == Value("Some", v, "")
None == Value("None", 0, "")
Panic(msg) == Value("panic", 0, msg)

\* cursor.rs: enum CursorState
MinOut == Value("MinOut", 0, "")
EmptyContainer == Value("EmptyContainer", 0, "")
Valid(v) == Value("Valid", v, "")
OutOfRange == Value("OutOfRange", 0, "")
MaxOut == Value("MaxOut", 0, "")

\* cursor.rs: CursorState::value
value(state) == IF state.tag = "Valid" THEN Some(state.val) ELSE None

\* result.rs: ok / error / is_true; strict is cfg(feature = "strict")
ok(strict) == IF strict THEN Value("Ok", 0, "") ELSE Value("true", 0, "")

error(strict, err) == IF strict THEN Value("Err", 0, err) ELSE Value("false", 0, "")

\* is_true reading the strict result as `is_err()`
is_true_strict_is_err(strict, result) ==
    IF strict THEN result.tag = "Err" ELSE result.tag = "true"

is_true(strict, result) == IF strict THEN result.tag = "Ok" ELSE result.tag = "true"

-----------------------------------------------------------------------------
(* usize arithmetic: the value the operation wraps to, and whether it      *)
(* overflowed.  With overflow checks on, an overflow panics.               *)

usize_sub(a, b) == [val |-> (a - b + UsizeModulus) % UsizeModulus, overflow |-> a < b]

usize_add(a, b) == [val |-> (a + b) % UsizeModulus, overflow |-> a + b > UsizeMax]

-----------------------------------------------------------------------------
(* Cursor (cursor.rs).  Each method returns the cursor it leaves, its      *)
(* OpResult (Unit for the methods that return nothing) and whether it      *)
(* panicked.                                                               *)

CursorOut(c, res) == [cursor |-> c, res |-> res, panic |-> FALSE]

CursorPanic(c, msg) == [cursor |-> c, res |-> Panic(msg), panic |-> TRUE]

Cursor_new(capacity) == [capacity |-> capacity, rotation |-> FALSE, index |-> 0]

\* set_rotation that also rewinds the index
set_rotation_rewinds(c, rotation) == [c EXCEPT !.rotation = rotation, !.index = 0]

set_rotation(c, rotation) == [c EXCEPT !.rotation = rotation]

get_value(c) == c.index

\* set_value assigning without the range check
set_value_unchecked(strict, c, val) == CursorOut([c EXCEPT !.index = val], ok(strict))

set_value(strict, c, val) ==
    IF val > c.capacity
    THEN CursorOut(c, error(strict, "Cursor out of range"))
    ELSE CursorOut([c EXCEPT !.index = val], ok(strict))

\* set_capacity without the clamp
set_capacity_noclamp(c, capacity) == CursorOut([c EXCEPT !.capacity = capacity], Unit)

\* set_capacity stepping the index back (`self.index -= 1`) where the code
\* assigns `self.capacity - 1`
set_capacity_decrements(c, capacity) ==
    LET c1 == [c EXCEPT !.capacity = capacity]
        d == usize_sub(c1.index, 1)
    IN  IF c1.index >= c1.capacity
        THEN IF d.overflow /\ overflow_checks
             THEN CursorPanic(c1, "attempt to subtract with overflow")
             ELSE CursorOut([c1 EXCEPT !.index = d.val], Unit)
        ELSE CursorOut(c1, Unit)

set_capacity(c, capacity) ==
    LET c1 == [c EXCEPT !.capacity = capacity]
        d == usize_sub(c1.capacity, 1)
    IN  IF c1.index >= c1.capacity
        THEN IF d.overflow /\ overflow_checks
             THEN CursorPanic(c1, "attempt to subtract with overflow")
             ELSE CursorOut([c1 EXCEPT !.index = d.val], Unit)
        ELSE CursorOut(c1, Unit)

\* increase without the test for the last index when rotation is off
increase_unbounded(strict, c) ==
    IF c.capacity = 0
    THEN CursorOut(c, error(strict, "Empty container"))
    ELSE IF c.index = c.capacity - 1 /\ c.rotation
         THEN CursorOut([c EXCEPT !.index = 0], ok(strict))
         ELSE CursorOut([c EXCEPT !.index = (c.index + 1) % UsizeModulus], ok(strict))

\* increase wrapping at the last index whatever the rotation flag
increase_always_rotates(strict, c) ==
    IF c.capacity = 0
    THEN CursorOut(c, error(strict, "Empty container"))
    ELSE IF c.index = c.capacity - 1
         THEN CursorOut([c EXCEPT !.index = 0], ok(strict))
         ELSE CursorOut([c EXCEPT !.index = (c.index + 1) % UsizeModulus], ok(strict))

increase(strict, c) ==
    IF c.capacity = 0
    THEN CursorOut(c, error(strict, "Empty container"))
    ELSE IF c.index = c.capacity - 1
         THEN IF c.rotation
              THEN CursorOut([c EXCEPT !.index = 0], ok(strict))
              ELSE CursorOut(c, error(strict, "Cursor out of range"))
         ELSE LET s == usize_add(c.index, 1)
              IN  IF s.overflow /\ overflow_checks
                  THEN CursorPanic(c, "attempt to add with overflow")
                  ELSE CursorOut([c EXCEPT !.index = s.val], ok(strict))

\* decrease wrapping to `capacity` where the code wraps to `capacity - 1`
decrease_wraps_to_capacity(strict, c) ==
    IF c.capacity = 0
    THEN CursorOut(c, error(strict, "Empty container"))
    ELSE IF c.index = 0
         THEN IF c.rotation
              THEN CursorOut([c EXCEPT !.index = c.capacity], ok(strict))
              ELSE CursorOut(c, error(strict, "Cursor out of range"))
         ELSE CursorOut([c EXCEPT !.index = c.index - 1], ok(strict))

decrease(strict, c) ==
    IF c.capacity = 0
    THEN CursorOut(c, error(strict, "Empty container"))
    ELSE IF c.index = 0
         THEN IF c.rotation
              THEN CursorOut([c EXCEPT !.index = c.capacity - 1], ok(strict))
              ELSE CursorOut(c, error(strict, "Cursor out of range"))
         ELSE CursorOut([c EXCEPT !.index = c.index - 1], ok(strict))

-----------------------------------------------------------------------------
(* Vec<T> operations the crate and its callers use (std).                  *)

\* Vec::get
Vec_get(v, i) == IF i < Len(v) THEN Some(v[i + 1]) ELSE None

\* The closures handed to modify, and the calls made on the vector directly
\* through DerefMut: push(n), truncate(n), clear(), retain(|x| x % 2 == n),
\* drain(n..).
Mutators ==
    [kind : {"push"}, n : Elems]
    \cup [kind : {"truncate", "drain"}, n : 0..MaxLen]
    \cup [kind : {"clear"}, n : {0}]
    \cup [kind : {"retain"}, n : {0, 1}]

\* the calls the model makes: push within MaxLen, drain(n..) with n <= len
\* (Vec::drain panics on a range that starts past the end)
MutatorApplies(f, v) ==
    /\ f.kind = "push" => Len(v) < MaxLen
    /\ f.kind = "drain" => f.n <= Len(v)

Keeps(f, x) == x % 2 = f.n

ApplyMutator(f, v) ==
    CASE f.kind = "push" -> Append(v, f.n)
      [] f.kind = "truncate" -> IF f.n < Len(v) THEN SubSeq(v, 1, f.n) ELSE v
      [] f.kind = "drain" -> SubSeq(v, 1, f.n)
      [] f.kind = "clear" -> <<>>
      [] f.kind = "retain" -> SelectSeq(v, LAMBDA x : Keeps(f, x))

-----------------------------------------------------------------------------
(* CursorVec (container.rs).  self is [vector, cursor]; each method        *)
(* returns the self it leaves, its return value and whether it panicked.   *)

Out(self, r) == [self |-> self, ret |-> r, panic |-> FALSE]

\* a Cursor method's outcome carried to the caller: its panic unwinds
\* through the caller, otherwise the caller returns r
Carry(self, co, r) ==
    [self |-> [self EXCEPT !.cursor = co.cursor],
     ret |-> IF co.panic THEN co.res ELSE r,
     panic |-> co.panic]

CursorVec_new == [vector |-> <<>>, cursor |-> Cursor_new(0)]

get_cursor_value(self) == Vec_get(self.vector, get_value(self.cursor))

\* is_empty_container judged by the cursor's capacity
is_empty_container_by_capacity(self) == self.cursor.capacity = 0

is_empty_container(self) == Len(self.vector) = 0

\* match self.get_cursor_value() { Some(v) => Valid(v), None => OutOfRange }
match_cursor_value(self) ==
    LET o == get_cursor_value(self)
    IN  IF o.tag = "Some" THEN Valid(o.val) ELSE OutOfRange

with_container(self, v) ==
    LET s1 == [self EXCEPT !.vector = v]
    IN  Carry(s1, set_capacity(s1.cursor, Len(s1.vector)), Unit)

rotatable(self, r) == Out([self EXCEPT !.cursor = set_rotation(self.cursor, r)], Unit)

set_rotatable(self, r) == Out([self EXCEPT !.cursor = set_rotation(self.cursor, r)], Unit)

\* update_cursor that leaves the cursor as it is
update_cursor_skips(self) == Out(self, Unit)

update_cursor(self) == Carry(self, set_capacity(self.cursor, Len(self.vector)), Unit)

set_container(self, container) == update_cursor([self EXCEPT !.vector = container])

modify(self, f) == update_cursor([self EXCEPT !.vector = ApplyMutator(f, self.vector)])

get_current(self) ==
    IF is_empty_container(self)
    THEN Out(self, EmptyContainer)
    ELSE Out(self, match_cursor_value(self))

get_cursor(self) ==
    IF Len(self.vector) = 0
    THEN Out(self, None)
    ELSE Out(self, Some(get_value(self.cursor)))

set_cursor(strict, self, k) ==
    LET co == set_value(strict, self.cursor, k)
    IN  Carry(self, co, co.res)

\* move_next without the empty-container check
move_next_no_empty_check(strict, self) ==
    LET co == increase(strict, self.cursor) IN Carry(self, co, co.res)

move_next(strict, self) ==
    IF is_empty_container(self)
    THEN Out(self, error(strict, "empty container"))
    ELSE LET co == increase(strict, self.cursor) IN Carry(self, co, co.res)

move_prev(strict, self) ==
    IF is_empty_container(self)
    THEN Out(self, error(strict, "empty container"))
    ELSE LET co == decrease(strict, self.cursor) IN Carry(self, co, co.res)

\* for _ in 0..amount { if !is_true(self.cursor.increase()) { return .. } }
\* broke: the loop was left at a failed step
RECURSIVE increase_loop(_, _, _)
increase_loop(strict, c, amount) ==
    IF amount = 0
    THEN [co |-> CursorOut(c, Unit), broke |-> FALSE]
    ELSE LET co == increase(strict, c)
         IN  IF co.panic \/ ~is_true(strict, co.res)
             THEN [co |-> co, broke |-> ~co.panic]
             ELSE increase_loop(strict, co.cursor, amount - 1)

RECURSIVE decrease_loop(_, _, _)
decrease_loop(strict, c, amount) ==
    IF amount = 0
    THEN [co |-> CursorOut(c, Unit), broke |-> FALSE]
    ELSE LET co == decrease(strict, c)
         IN  IF co.panic \/ ~is_true(strict, co.res)
             THEN [co |-> co, broke |-> ~co.panic]
             ELSE decrease_loop(strict, co.cursor, amount - 1)

move_next_and_get(strict, self) ==
    IF is_empty_container(self)
    THEN Out(self, EmptyContainer)
    ELSE LET co == increase(strict, self.cursor)
             s1 == [self EXCEPT !.cursor = co.cursor]
         IN  IF ~co.panic /\ ~is_true(strict, co.res)
             THEN Out(s1, MaxOut)
             ELSE Carry(self, co, match_cursor_value(s1))

move_next_and_get_always(strict, self) ==
    IF is_empty_container(self)
    THEN Out(self, None)
    ELSE LET co == increase(strict, self.cursor)
             s1 == [self EXCEPT !.cursor = co.cursor]
         IN  Carry(self, co, get_cursor_value(s1))

\* move_next_nth_and_get reading the element where the code returns MaxOut
move_next_nth_and_get_no_maxout(strict, self, amount) ==
    IF is_empty_container(self)
    THEN Out(self, EmptyContainer)
    ELSE LET l == increase_loop(strict, self.cursor, amount)
             s1 == [self EXCEPT !.cursor = l.co.cursor]
         IN  IF l.broke
             THEN Out(s1, match_cursor_value(s1))
             ELSE Carry(self, l.co, match_cursor_value(s1))

move_next_nth_and_get(strict, self, amount) ==
    IF is_empty_container(self)
    THEN Out(self, EmptyContainer)
    ELSE LET l == increase_loop(strict, self.cursor, amount)
             s1 == [self EXCEPT !.cursor = l.co.cursor]
         IN  IF l.broke
             THEN Out(s1, MaxOut)
             ELSE Carry(self, l.co, match_cursor_value(s1))

\* move_next_nth_and_get_always returning None at the failed step
move_next_nth_and_get_always_none(strict, self, amount) ==
    IF is_empty_container(self)
    THEN Out(self, None)
    ELSE LET l == increase_loop(strict, self.cursor, amount)
             s1 == [self EXCEPT !.cursor = l.co.cursor]
         IN  IF l.broke
             THEN Out(s1, None)
             ELSE Carry(self, l.co, get_cursor_value(s1))

move_next_nth_and_get_always(strict, self, amount) ==
    IF is_empty_container(self)
    THEN Out(self, None)
    ELSE LET l == increase_loop(strict, self.cursor, amount)
             s1 == [self EXCEPT !.cursor = l.co.cursor]
         IN  IF l.broke
             THEN Out(s1, get_cursor_value(s1))
             ELSE Carry(self, l.co, get_cursor_value(s1))

move_prev_and_get(strict, self) ==
    IF is_empty_container(self)
    THEN Out(self, EmptyContainer)
    ELSE LET co == decrease(strict, self.cursor)
             s1 == [self EXCEPT !.cursor = co.cursor]
         IN  IF ~co.panic /\ ~is_true(strict, co.res)
             THEN Out(s1, MinOut)
             ELSE Carry(self, co, match_cursor_value(s1))

move_prev_and_get_always(strict, self) ==
    IF is_empty_container(self)
    THEN Out(self, None)
    ELSE LET co == decrease(strict, self.cursor)
             s1 == [self EXCEPT !.cursor = co.cursor]
         IN  Carry(self, co, get_cursor_value(s1))

move_prev_nth_and_get(strict, self, amount) ==
    IF is_empty_container(self)
    THEN Out(self, EmptyContainer)
    ELSE LET l == decrease_loop(strict, self.cursor, amount)
             s1 == [self EXCEPT !.cursor = l.co.cursor]
         IN  IF l.broke
             THEN Out(s1, MinOut)
             ELSE Carry(self, l.co, match_cursor_value(s1))

move_prev_nth_and_get_always(strict, self, amount) ==
    IF is_empty_container(self)
    THEN Out(self, None)
    ELSE LET l == decrease_loop(strict, self.cursor, amount)
             s1 == [self EXCEPT !.cursor = l.co.cursor]
         IN  IF l.broke
             THEN Out(s1, get_cursor_value(s1))
             ELSE Carry(self, l.co, get_cursor_value(s1))

-----------------------------------------------------------------------------------------------------------------------------------------------------
(* The state machine: one action per call on the CursorVec, made on the    *)
(* default build and on the build with the strict feature.                 *)

Self == [vector |-> vector, cursor |-> cursor]

StrictSelf == [vector |-> strict_build.vector, cursor |-> strict_build.cursor]

\* a call named name with argument arg, out its outcome in the default
\* build and strict_out in the strict build; after a panic nothing is called
\* any more
Calls(name, arg, out, strict_out) ==
    /\ ~panicked
    /\ ~strict_build.panicked
    /\ \E o \in {out}, os \in {strict_out} :
        /\ call' = [name |-> name, arg |-> arg]
        /\ vector' = o.self.vector
        /\ cursor' = o.self.cursor
        /\ ret' = o.ret
        /\ panicked' = o.panic
        /\ strict_build' = [vector |-> os.self.vector, cursor |-> os.self.cursor,
                            ret |-> os.ret, panicked |-> os.panic]
    /\ UNCHANGED overflow_checks

\* a forward move of n steps is explored when the index is in range, or
\* stays within MaxIndex, or is the usize::MAX a wrapped `0 - 1` leaves
IndexInModel(n) ==
    \/ cursor.index < cursor.capacity
    \/ cursor.index + n <= MaxIndex
    \/ cursor.index = UsizeMax

Amounts == 0..MaxAmount

\* indices handed to set_cursor: in range, at capacity, and past it
CursorArgs == 0..(MaxLen + 1)

Init ==
    /\ vector = CursorVec_new.vector
    /\ cursor = CursorVec_new.cursor
    /\ call = [name |-> "new", arg |-> 0]
    /\ ret = Unit
    /\ panicked = FALSE
    /\ overflow_checks \in BOOLEAN
    /\ strict_build = [vector |-> CursorVec_new.vector, cursor |-> CursorVec_new.cursor,
                       ret |-> Unit, panicked |-> FALSE]

Do_with_container ==
    \E v \in Vectors :
        Calls("with_container", v, with_container(Self, v), with_container(StrictSelf, v))

Do_rotatable ==
    \E r \in BOOLEAN :
        Calls("rotatable", r, rotatable(Self, r), rotatable(StrictSelf, r))

Do_set_rotatable ==
    \E r \in BOOLEAN :
        Calls("set_rotatable", r, set_rotatable(Self, r), set_rotatable(StrictSelf, r))

Do_set_container ==
    \E v \in Vectors :
        Calls("set_container", v, set_container(Self, v), set_container(StrictSelf, v))

Do_modify ==
    \E f \in Mutators :
        /\ MutatorApplies(f, vector)
        /\ Calls("modify", f, modify(Self, f), modify(StrictSelf, f))

Do_update_cursor ==
    Calls("update_cursor", 0, update_cursor(Self), update_cursor(StrictSelf))

\* a call on the Vec itself through DerefMut: the cursor is not told
deref_mut(self, f) == Out([self EXCEPT !.vector = ApplyMutator(f, self.vector)], Unit)

Do_deref_mut ==
    \E f \in Mutators :
        /\ MutatorApplies(f, vector)
        /\ Calls("deref_mut", f, deref_mut(Self, f), deref_mut(StrictSelf, f))

Do_move_next_and_get ==
    /\ IndexInModel(1)
    /\ Calls("move_next_and_get", 0,
             move_next_and_get(FALSE, Self), move_next_and_get(TRUE, StrictSelf))

Do_move_next_and_get_always ==
    /\ IndexInModel(1)
    /\ Calls("move_next_and_get_always", 0,
             move_next_and_get_always(FALSE, Self),
             move_next_and_get_always(TRUE, StrictSelf))

Do_move_next_nth_and_get ==
    \E n \in Amounts :
        /\ IndexInModel(n)
        /\ Calls("move_next_nth_and_get", n,
                 move_next_nth_and_get(FALSE, Self, n),
                 move_next_nth_and_get(TRUE, StrictSelf, n))

Do_move_next_nth_and_get_always ==
    \E n \in Amounts :
        /\ IndexInModel(n)
        /\ Calls("move_next_nth_and_get_always", n,
                 move_next_nth_and_get_always(FALSE, Self, n),
                 move_next_nth_and_get_always(TRUE, StrictSelf, n))

Do_move_prev_and_get ==
    Calls("move_prev_and_get", 0,
          move_prev_and_get(FALSE, Self), move_prev_and_get(TRUE, StrictSelf))

Do_move_prev_and_get_always ==
    Calls("move_prev_and_get_always", 0,
          move_prev_and_get_always(FALSE, Self),
          move_prev_and_get_always(TRUE, StrictSelf))

Do_move_prev_nth_and_get ==
    \E n \in Amounts :
        Calls("move_prev_nth_and_get", n,
              move_prev_nth_and_get(FALSE, Self, n),
              move_prev_nth_and_get(TRUE, StrictSelf, n))

Do_move_prev_nth_and_get_always ==
    \E n \in Amounts :
        Calls("move_prev_nth_and_get_always", n,
              move_prev_nth_and_get_always(FALSE, Self, n),
              move_prev_nth_and_get_always(TRUE, StrictSelf, n))

Do_get_current == Calls("get_current", 0, get_current(Self), get_current(StrictSelf))

Do_move_next ==
    /\ IndexInModel(1)
    /\ Calls("move_next", 0, move_next(FALSE, Self), move_next(TRUE, StrictSelf))

Do_move_prev == Calls("move_prev", 0, move_prev(FALSE, Self), move_prev(TRUE, StrictSelf))

Do_get_cursor == Calls("get_cursor", 0, get_cursor(Self), get_cursor(StrictSelf))

Do_set_cursor ==
    \E k \in CursorArgs :
        Calls("set_cursor", k, set_cursor(FALSE, Self, k), set_cursor(TRUE, StrictSelf, k))

Next ==
    \/ Do_with_container
    \/ Do_rotatable
    \/ Do_set_rotatable
    \/ Do_set_container
    \/ Do_modify
    \/ Do_update_cursor
    \/ Do_deref_mut
    \/ Do_move_next_and_get
    \/ Do_move_next_and_get_always
    \/ Do_move_next_nth_and_get
    \/ Do_move_next_nth_and_get_always
    \/ Do_move_prev_and_get
    \/ Do_move_prev_and_get_always
    \/ Do_move_prev_nth_and_get
    \/ Do_move_prev_nth_and_get_always
    \/ Do_get_current
    \/ Do_move_next
    \/ Do_move_prev
    \/ Do_get_cursor
    \/ Do_set_cursor

Spec == Init /\ [][Next]_vars

-----------------------------------------------------------------------------
(* Properties *)

\* the cursor's capacity is the vector's length
Synced == cursor.capacity = Len(vector)

\* Self after the step
SelfNext == [vector |-> vector', cursor |-> cursor']

\* the calls that set the cursor's capacity from the vector's length
SyncCalls == {"with_container", "set_container", "modify", "update_cursor"}

MoveCalls ==
    {"move_next", "move_prev",
     "move_next_and_get", "move_next_and_get_always",
     "move_next_nth_and_get", "move_next_nth_and_get_always",
     "move_prev_and_get", "move_prev_and_get_always",
     "move_prev_nth_and_get", "move_prev_nth_and_get_always"}

AlwaysCalls ==
    {"move_next_and_get_always", "move_prev_and_get_always",
     "move_next_nth_and_get_always", "move_prev_nth_and_get_always"}

CursorStateTags == {"MinOut", "EmptyContainer", "Valid", "OutOfRange", "MaxOut"}

\* C1: in every synchronized state (no direct mutation is pending),
\* get_cursor() is None when the vector is empty and otherwise Some(i) with
\* i < the vector's length.
C1_GetCursorInRange ==
    (Synced /\ ~panicked) =>
        LET r == get_cursor(Self).ret
        IN  IF Len(vector) = 0
            THEN r = None
            ELSE r.tag = "Some" /\ r.val < Len(vector)

\* C2: no call panics, and a call that sets the capacity to 0 leaves the
\* index at 0.
C2_ZeroCapacityLeavesIndexZero ==
    /\ ~panicked
    /\ (call.name \in SyncCalls /\ Len(vector) = 0) => cursor.index = 0

\* C3: when with_container, set_container, modify or update_cursor has
\* returned, capacity = length; and a step leaves capacity # length only if
\* it is a direct mutation of the vector or capacity # length held before it
\* (a direct mutation not yet followed by update_cursor).
C3_CapacityIsLength ==
    /\ []((call.name \in SyncCalls /\ ~panicked) => Synced)
    /\ [][(cursor'.capacity # Len(vector')) =>
             (call'.name = "deref_mut" \/ ~Synced)]_vars

\* C3 witness: a synchronized two-element vector with the cursor on its
\* last element, where modify drops an element and returns with capacity 1
\* and the index clamped to 0.
C3_Witness ==
    /\ Synced
    /\ Len(vector) = 2
    /\ cursor.index = 1
    /\ ENABLED (Do_modify /\ ~panicked' /\ Len(vector') = 1
                /\ cursor'.capacity = 1 /\ cursor'.index = 0)

\* C4: a move made with capacity > 0 and index < capacity leaves
\* index < capacity, whether it succeeded or failed, with rotation on or off.
C4_MovesKeepRange ==
    [][(call'.name \in MoveCalls /\ cursor.capacity > 0 /\ cursor.index < cursor.capacity)
          => (~panicked' /\ cursor'.capacity = cursor.capacity
              /\ cursor'.index < cursor'.capacity)]_vars

\* C4 witness: without rotation, a three-step forward move has failed and
\* left the index at the last slot of a two-element vector.
C4_Witness ==
    /\ call.name = "move_next_nth_and_get"
    /\ call.arg = 3
    /\ ret = MaxOut
    /\ ~cursor.rotation
    /\ cursor.capacity = 2
    /\ cursor.index = 1

\* C5: in a synchronized state with a non-empty vector, an always-variant
\* move has returned Some(the element at the index it left).
C5_AlwaysReturnsSome ==
    (call.name \in AlwaysCalls /\ Synced /\ Len(vector) > 0 /\ ~panicked) =>
        /\ ret.tag = "Some"
        /\ cursor.index < Len(vector)
        /\ ret.val = vector[cursor.index + 1]

\* C6: set_container(S) returns for every S, and set_cursor(k) made right
\* after it with k <= len(S) leaves get_current() = Valid(S[k]) when
\* k < len(S) and some CursorState when k = len(S).
C6_RoundTrip ==
    [][/\ (call'.name = "set_container") => ~panicked'
       /\ (call.name = "set_container" /\ call'.name = "set_cursor"
           /\ call'.arg <= Len(vector)) =>
             LET r == get_current(SelfNext).ret
             IN  /\ ~panicked'
                 /\ IF call'.arg < Len(vector)
                    THEN r = Valid(vector[call'.arg + 1])
                    ELSE r.tag \in CursorStateTags]_vars

\* C7: when modify(f) has returned, the vector is f applied to the old
\* vector, capacity = the new length, the index is the old index if that is
\* < the new length and the new length - 1 otherwise, and get_current() is
\* Valid(the element at the index) when the new length is > 0.
C7_ModifyClamps ==
    [][(call'.name = "modify" /\ ~panicked') =>
          /\ vector' = ApplyMutator(call'.arg, vector)
          /\ cursor'.capacity = Len(vector')
          /\ cursor'.index = (IF cursor.index < Len(vector')
                              THEN cursor.index
                              ELSE Len(vector') - 1)
          /\ (Len(vector') > 0) =>
                /\ cursor'.index < Len(vector')
                /\ get_current(SelfNext).ret = Valid(vector'[cursor'.index + 1])]_vars

\* C8: when update_cursor() has returned, get_current() is Valid(the
\* element at the index) if the vector is non-empty and EmptyContainer if
\* it is empty: never OutOfRange.
C8_UpdateCursorEndsOutOfRange ==
    (call.name = "update_cursor" /\ ~panicked) =>
        LET r == get_current(Self).ret
        IN  IF Len(vector) = 0
            THEN r = EmptyContainer
            ELSE /\ cursor.index < Len(vector)
                 /\ r = Valid(vector[cursor.index + 1])

\* C8 witness: a direct mutation has left a non-empty vector shorter than
\* the capacity, get_current() is OutOfRange, and update_cursor() returns
\* with get_current() Valid.
C8_Witness ==
    /\ call.name = "deref_mut"
    /\ cursor.capacity > Len(vector)
    /\ get_current(Self).ret = OutOfRange
    /\ ENABLED (Do_update_cursor /\ ~panicked'
                /\ get_current(SelfNext).ret.tag = "Valid")

\* C9: an update_cursor() made right after an update_cursor() changes
\* neither the vector nor the cursor (capacity, index, rotation), and
\* returns.
C9_UpdateCursorIdempotent ==
    [][(call.name = "update_cursor" /\ call'.name = "update_cursor") =>
          (vector' = vector /\ cursor' = cursor /\ ~panicked')]_vars

\* C9 witness: update_cursor() has returned on a non-empty vector with the
\* index at the last element, and is called again.
C9_Witness ==
    /\ call.name = "update_cursor"
    /\ ~panicked
    /\ Len(vector) = 1
    /\ cursor.index = 0
    /\ ENABLED (Do_update_cursor /\ cursor' = cursor)

\* C10: without rotation, on a synchronized non-empty vector,
\* move_next_and_get() at the last index returns MaxOut and
\* move_prev_and_get() at index 0 returns MinOut, and neither changes the
\* cursor or the vector (so every further call finds the same state).
C10_Saturation ==
    [][/\ (call'.name = "move_next_and_get" /\ ~cursor.rotation /\ Synced
           /\ Len(vector) > 0 /\ cursor.index = Len(vector) - 1) =>
             (ret' = MaxOut /\ cursor' = cursor /\ vector' = vector /\ ~panicked')
       /\ (call'.name = "move_prev_and_get" /\ ~cursor.rotation /\ Synced
           /\ Len(vector) > 0 /\ cursor.index = 0) =>
             (ret' = MinOut /\ cursor' = cursor /\ vector' = vector /\ ~panicked')]_vars

\* C10 witness: move_next_and_get() has returned MaxOut at the last index
\* of a synchronized two-element vector without rotation, and the next
\* move_next_and_get() returns MaxOut again.
C10_Witness ==
    /\ call.name = "move_next_and_get"
    /\ ret = MaxOut
    /\ ~cursor.rotation
    /\ Synced
    /\ Len(vector) = 2
    /\ cursor.index = 1
    /\ ENABLED (Do_move_next_and_get /\ ret' = MaxOut /\ cursor' = cursor)

\* a synchronized non-empty vector with the cursor on one of its elements
InRange == Synced /\ Len(vector) > 0 /\ cursor.index < Len(vector)

\* a mod m for m > 0, also for a < 0
Mod(a, m) == ((a % m) + m) % m

Min(a, b) == IF a <= b THEN a ELSE b

Max(a, b) == IF a >= b THEN a ELSE b

\* C11: with rotation on, from a synchronized vector of length L > 0 with
\* the index i < L, move_next_nth_and_get(n) leaves the index at
\* (i + n) mod L and returns Valid of that element, and
\* move_prev_nth_and_get(n) leaves it at (i - n) mod L and returns Valid of
\* that element; move_next_and_get() is the case n = 1 (from the last
\* index it wraps to 0 and returns Valid of the first element).
C11_RotatingWrap ==
    [][(InRange /\ cursor.rotation) =>
          /\ (call'.name = "move_next_nth_and_get") =>
                LET j == Mod(cursor.index + call'.arg, Len(vector))
                IN  ~panicked' /\ cursor'.index = j /\ ret' = Valid(vector[j + 1])
          /\ (call'.name = "move_prev_nth_and_get") =>
                LET j == Mod(cursor.index - call'.arg, Len(vector))
                IN  ~panicked' /\ cursor'.index = j /\ ret' = Valid(vector[j + 1])
          /\ (call'.name = "move_next_and_get") =>
                LET j == Mod(cursor.index + 1, Len(vector))
                IN  ~panicked' /\ cursor'.index = j /\ ret' = Valid(vector[j + 1])]_vars

\* C11 witness: rotation on, the cursor on the last of two distinct
\* elements, and a three-step forward move wraps twice and returns Valid of
\* the first element.
C11_Witness ==
    /\ InRange
    /\ cursor.rotation
    /\ vector = <<1, 2>>
    /\ cursor.index = 1
    /\ ENABLED (Do_move_next_nth_and_get /\ call'.arg = 3
                /\ cursor'.index = 0 /\ ret' = Valid(1))

\* C12: with rotation off, from a synchronized vector of length L > 0 with
\* the index i < L, move_next_nth_and_get(n) returns Valid(S[i + n]) with
\* the index at i + n when i + n <= L - 1 and MaxOut with the index at L - 1
\* otherwise; move_prev_nth_and_get(n) returns Valid(S[i - n]) with the
\* index at i - n when n <= i and MinOut with the index at 0 otherwise.
C12_StrictNthAborts ==
    [][(InRange /\ ~cursor.rotation) =>
          /\ (call'.name = "move_next_nth_and_get") =>
                LET j == cursor.index + call'.arg
                IN  /\ ~panicked'
                    /\ IF j <= Len(vector) - 1
                       THEN cursor'.index = j /\ ret' = Valid(vector[j + 1])
                       ELSE cursor'.index = Len(vector) - 1 /\ ret' = MaxOut
          /\ (call'.name = "move_prev_nth_and_get") =>
                LET j == cursor.index - call'.arg
                IN  /\ ~panicked'
                    /\ IF j >= 0
                       THEN cursor'.index = j /\ ret' = Valid(vector[j + 1])
                       ELSE cursor'.index = 0 /\ ret' = MinOut]_vars

\* C12 witness: rotation off, the cursor on the first of two elements, and
\* a two-step forward move makes one step and returns MaxOut at index 1.
C12_Witness ==
    /\ InRange
    /\ ~cursor.rotation
    /\ Len(vector) = 2
    /\ cursor.index = 0
    /\ ENABLED (Do_move_next_nth_and_get /\ call'.arg = 2
                /\ cursor'.index = 1 /\ ret' = MaxOut)

\* C13: with rotation off, from a synchronized vector of length L > 0 with
\* the index i < L, move_next_nth_and_get_always(n) leaves the index at
\* min(i + n, L - 1) and move_prev_nth_and_get_always(n) at max(i - n, 0),
\* and each returns Some of the element there.
C13_AlwaysNthSaturates ==
    [][(InRange /\ ~cursor.rotation) =>
          /\ (call'.name = "move_next_nth_and_get_always") =>
                LET j == Min(cursor.index + call'.arg, Len(vector) - 1)
                IN  ~panicked' /\ cursor'.index = j /\ ret' = Some(vector[j + 1])
          /\ (call'.name = "move_prev_nth_and_get_always") =>
                LET j == Max(cursor.index - call'.arg, 0)
                IN  ~panicked' /\ cursor'.index = j /\ ret' = Some(vector[j + 1])]_vars

\* C13 witness: rotation off, the cursor on the first of two distinct
\* elements, and a three-step forward always-move stops at the last element
\* and returns it.
C13_Witness ==
    /\ InRange
    /\ ~cursor.rotation
    /\ vector = <<1, 2>>
    /\ cursor.index = 0
    /\ ENABLED (Do_move_next_nth_and_get_always /\ call'.arg = 3
                /\ cursor'.index = 1 /\ ret' = Some(2))

\* the tags of an OpResult in the boolean build and in the strict build
BoolTags == {"true", "false"}

StrictTags == {"Ok", "Err"}

\* C14: the build with the boolean OpResult and the build with the strict
\* OpResult, given the same calls, agree on the elements and on the
\* cursor's index, capacity and rotation at every step, panic together,
\* return the same CursorState / Option, and where they return an OpResult
\* the strict one is Ok(()) exactly when the boolean one is true.
C14_PoliciesAgree ==
    /\ strict_build.vector = vector
    /\ strict_build.cursor = cursor
    /\ strict_build.panicked = panicked
    /\ IF ret.tag \in BoolTags
       THEN /\ strict_build.ret.tag \in StrictTags
            /\ (strict_build.ret.tag = "Ok") <=> (ret.tag = "true")
       ELSE strict_build.ret = ret

\* C14 witness: a move_next from the last of at least two elements fails as
\* `false` in one build and as Err("Cursor out of range") in the other, and
\* both cursors stay where they were.
C14_Witness ==
    /\ call.name = "move_next"
    /\ Len(vector) > 1
    /\ cursor.index = Len(vector) - 1
    /\ ret = Value("false", 0, "")
    /\ strict_build.ret = Value("Err", 0, "Cursor out of range")
    /\ strict_build.cursor = cursor

\* C15: set_cursor(k) succeeds only if k <= capacity and then the index is
\* k; for every k > capacity it reports failure and leaves the index, the
\* capacity, the rotation flag and the elements unchanged.
C15_SetCursor ==
    [][(call'.name = "set_cursor") =>
          /\ ~panicked'
          /\ ret'.tag \in BoolTags
          /\ (ret'.tag = "true") =>
                (call'.arg <= cursor.capacity /\ cursor'.index = call'.arg)
          /\ (call'.arg > cursor.capacity) =>
                (ret'.tag = "false" /\ cursor' = cursor /\ vector' = vector)]_vars

\* C15 witness: a cursor on index 0 of a non-empty vector, and set_cursor
\* with an index past the capacity fails and leaves the index at 0.
C15_Witness ==
    /\ Synced
    /\ Len(vector) > 0
    /\ cursor.index = 0
    /\ ENABLED (Do_set_cursor /\ call'.arg = Len(vector) + 1
                /\ ret'.tag = "false" /\ cursor'.index = 0)

\* move_next() / move_prev() fail in these states
MoveNextFails ==
    \/ Len(vector) = 0
    \/ cursor.capacity = 0
    \/ ~cursor.rotation /\ cursor.index = cursor.capacity - 1

MovePrevFails ==
    \/ Len(vector) = 0
    \/ cursor.capacity = 0
    \/ ~cursor.rotation /\ cursor.index = 0

\* C16: move_next() / move_prev() report failure when the vector is empty,
\* when the capacity is 0, or when rotation is off and the index is at
\* capacity - 1 (move_next) or at 0 (move_prev), and then the cursor and the
\* elements are unchanged; in every other case they succeed and the index
\* moves one step, or wraps to 0 / capacity - 1 with rotation on.
C16_PlainMoves ==
    [][/\ (call'.name = "move_next") =>
            /\ ~panicked'
            /\ vector' = vector
            /\ IF MoveNextFails
               THEN ret'.tag = "false" /\ cursor' = cursor
               ELSE /\ ret'.tag = "true"
                    /\ cursor' = [cursor EXCEPT !.index =
                                     IF cursor.index = cursor.capacity - 1
                                     THEN 0 ELSE cursor.index + 1]
       /\ (call'.name = "move_prev") =>
            /\ ~panicked'
            /\ vector' = vector
            /\ IF MovePrevFails
               THEN ret'.tag = "false" /\ cursor' = cursor
               ELSE /\ ret'.tag = "true"
                    /\ cursor' = [cursor EXCEPT !.index =
                                     IF cursor.index = 0
                                     THEN cursor.capacity - 1 ELSE cursor.index - 1]]_vars

\* C16 witness: the vector emptied directly while the cursor still holds a
\* capacity of 2 with rotation on, and move_next fails and moves nothing.
C16_Witness ==
    /\ Len(vector) = 0
    /\ cursor.capacity = 2
    /\ cursor.rotation
    /\ cursor.index = 0
    /\ ENABLED (Do_move_next /\ ret'.tag = "false" /\ cursor' = cursor)

\* C17: get_current() returns EmptyContainer exactly when the vector is
\* empty, OutOfRange exactly when the vector is non-empty and the index is
\* at or past its length, and Valid of the element at the index exactly
\* when the index is below the length, whatever capacity the cursor holds;
\* it changes neither the cursor nor the elements.
C17_GetCurrentClassifies ==
    [][(call'.name = "get_current") =>
          /\ ~panicked'
          /\ cursor' = cursor
          /\ vector' = vector
          /\ ret' = IF Len(vector) = 0 THEN EmptyContainer
                    ELSE IF cursor.index >= Len(vector) THEN OutOfRange
                    ELSE Valid(vector[cursor.index + 1])]_vars

\* C17 witness: the vector emptied directly while the cursor still holds a
\* capacity of 2, and get_current returns EmptyContainer.
C17_Witness ==
    /\ Len(vector) = 0
    /\ cursor.capacity = 2
    /\ ENABLED (Do_get_current /\ ret' = EmptyContainer /\ cursor' = cursor)

RotationCalls == {"rotatable", "set_rotatable"}

\* C18: set_rotatable / rotatable set the rotation flag and leave the index,
\* the capacity and the elements unchanged; every move and set_cursor leave
\* the capacity, the rotation flag and the elements unchanged.
C18_Frames ==
    [][/\ (call'.name \in RotationCalls) =>
            /\ cursor' = [cursor EXCEPT !.rotation = call'.arg]
            /\ vector' = vector
       /\ (call'.name \in MoveCalls \cup {"set_cursor"}) =>
            /\ cursor'.capacity = cursor.capacity
            /\ cursor'.rotation = cursor.rotation
            /\ vector' = vector]_vars

\* C18 witness: the cursor on the second of two elements with rotation off,
\* and set_rotatable(true) turns rotation on and leaves the index at 1.
C18_Witness ==
    /\ InRange
    /\ Len(vector) = 2
    /\ cursor.index = 1
    /\ ~cursor.rotation
    /\ ENABLED (Do_set_rotatable /\ cursor'.rotation /\ cursor'.index = 1
                /\ vector' = vector)

\* the outcome of the k-th of k consecutive move_next_and_get() /
\* move_prev_and_get() calls on self, k >= 1
RECURSIVE NextAndGetTimes(_, _)
NextAndGetTimes(self, k) ==
    IF k = 1 THEN move_next_and_get(FALSE, self)
    ELSE NextAndGetTimes(move_next_and_get(FALSE, self).self, k - 1)

RECURSIVE PrevAndGetTimes(_, _)
PrevAndGetTimes(self, k) ==
    IF k = 1 THEN move_prev_and_get(FALSE, self)
    ELSE PrevAndGetTimes(move_prev_and_get(FALSE, self).self, k - 1)

\* C19: in every synchronized state with rotation off and a non-empty
\* vector of length L, the index is at most L - 1, some k <= L has the
\* k-th repeated move_next_and_get() return MaxOut, every call after
\* it returns MaxOut again, and likewise move_prev_and_get() and MinOut.
C19_BoundedResponse ==
    (Synced /\ ~cursor.rotation /\ Len(vector) > 0 /\ ~panicked) =>
        /\ cursor.index <= Len(vector) - 1
        /\ \E k \in 1..Len(vector) :
              \A m \in k..(Len(vector) + 1) :
                  NextAndGetTimes(Self, m).ret = MaxOut
        /\ \E k \in 1..Len(vector) :
              \A m \in k..(Len(vector) + 1) :
                  PrevAndGetTimes(Self, m).ret = MinOut

\* C20: in every synchronized state with a non-empty vector, a move_next()
\* that succeeds is undone by the move_prev() after it, which succeeds and
\* restores the index, and a move_prev() that succeeds is undone by the
\* move_next() after it.
C20_MovesInverse ==
    (Synced /\ Len(vector) > 0 /\ ~panicked) =>
        /\ LET n == move_next(FALSE, Self)
               p == move_prev(FALSE, n.self)
           IN  (n.ret.tag = "true") =>
                   (~p.panic /\ p.ret.tag = "true"
                    /\ p.self.cursor.index = cursor.index)
        /\ LET p == move_prev(FALSE, Self)
               n == move_next(FALSE, p.self)
           IN  (p.ret.tag = "true") =>
                   (~n.panic /\ n.ret.tag = "true"
                    /\ n.self.cursor.index = cursor.index)

====
